---- MODULE Spec2Model ----
(***************************************************************************)
(* Model of the Cyber-News-Agent collection and classification pipeline:   *)
(* CyberNewsAgent (news_agent.py) driving the three source connectors and  *)
(* the SummarizerTool classifier (tools/summarizer.py).                    *)
(*                                                                         *)
(* Text is modelled by TLA+ strings; lower(), strip(), split() and the     *)
(* `in` substring test are computed character by character.                *)
(***************************************************************************)
EXTENDS Integers, Sequences, FiniteSets, TLC

(***************************************************************************)
(* Bounds of the model.                                                    *)
(***************************************************************************)
\* largest max_items argument a caller passes to run_full_pipeline
MaxItemsArg == 3
\* number of run_full_pipeline calls in one behaviour
MaxRuns == 2

(***************************************************************************)
(* Python string primitives.                                               *)
(***************************************************************************)
Min(a, b) == IF a < b THEN a ELSE b

\* str.lower() on one character (the upper-case letters the model's texts use)
LowerChar(c) ==
  CASE c = "A" -> "a" [] c = "B" -> "b" [] c = "C" -> "c" [] c = "D" -> "d"
    [] c = "E" -> "e" [] c = "F" -> "f" [] c = "G" -> "g" [] c = "H" -> "h"
    [] c = "I" -> "i" [] c = "J" -> "j" [] c = "K" -> "k" [] c = "L" -> "l"
    [] c = "M" -> "m" [] c = "N" -> "n" [] c = "O" -> "o" [] c = "P" -> "p"
    [] c = "Q" -> "q" [] c = "R" -> "r" [] c = "S" -> "s" [] c = "T" -> "t"
    [] c = "U" -> "u" [] c = "V" -> "v" [] c = "W" -> "w" [] c = "X" -> "x"
    [] c = "Y" -> "y" [] c = "Z" -> "z" [] OTHER -> c

RECURSIVE Lower(_)
\* str.lower(): every character lower-cased, the two halves of s in turn
Lower(s) ==
  IF Len(s) = 0 THEN ""
  ELSE IF Len(s) = 1 THEN LowerChar(s)
  ELSE Lower(SubSeq(s, 1, Len(s) \div 2)) \o Lower(SubSeq(s, (Len(s) \div 2) + 1, Len(s)))

\* characters str.strip() removes
IsSpace(c) == c \in {" ", "\n", "\t"}

RECURSIVE LStrip(_)
LStrip(s) ==
  IF Len(s) > 0 /\ IsSpace(SubSeq(s, 1, 1)) THEN LStrip(SubSeq(s, 2, Len(s))) ELSE s

RECURSIVE RStrip(_)
RStrip(s) ==
  IF Len(s) > 0 /\ IsSpace(SubSeq(s, Len(s), Len(s)))
  THEN RStrip(SubSeq(s, 1, Len(s) - 1)) ELSE s

\* str.strip()
Strip(s) == RStrip(LStrip(s))

\* Python `q in s` for strings
Contains(s, q) == \E i \in 0..(Len(s) - Len(q)) : SubSeq(s, i + 1, i + Len(q)) = q

\* list[:n] for n >= 0
Take(seq, n) == SubSeq(seq, 1, Min(n, Len(seq)))

(***************************************************************************)
(* NewsItem (models.py) and the items the connectors can deliver.          *)
(***************************************************************************)
\* the five keys of get_categorized_news, in the order the dict is built
CategoryKeys == <<"Latest Attacks", "New Tools", "Threat Intelligence", "Vulnerabilities", "General">>
CategorySet == {CategoryKeys[i] : i \in DOMAIN CategoryKeys}

\* the keys of get_severity_stats
SeverityKeys == <<"High", "Medium", "Low">>
SeveritySet == {SeverityKeys[i] : i \in DOMAIN SeverityKeys}

NewsItem(title, content, source, category, severity, tags) ==
  [title |-> title, content |-> content, source |-> source,
   category |-> category, severity |-> severity, tags |-> tags, summary |-> ""]

\* (title, content) pairs an external source can hold; titles are already
\* stripped by every connector, two of them differ only in case
Articles ==
  { [title |-> "Ransomware Attack", content |-> "Critical breach. Malware attack spreads"],
    [title |-> "RANSOMWARE ATTACK", content |-> "Minor update"],
    [title |-> "New Tool", content |-> "Security platform"],
    [title |-> "Patch Notes", content |-> "Vulnerability fixed. Exploit code seen"] }

\* title key without lower(): titles differing in case are different keys
TitleKeyCaseSensitive(item) == Strip(item.title)

\* _deduplicate_news: title_key = item.title.lower().strip()
TitleKey(item) == Strip(Lower(item.title))

\* sequences over S of length at most n
SeqsUpTo(S, n) == UNION { [1..k -> S] : k \in 0..n }

\* no two elements of the list share a title key
TitleUnique(seq) == \A i, j \in DOMAIN seq : TitleKey(seq[i]) = TitleKey(seq[j]) => i = j

\* NewsAPITool.fetch_cybersecurity_news(cap): nothing in production, else at most
\* cap parsed articles (category General, severity Medium, no tags), one per title
NewsApiResults(cap, production) ==
  IF production THEN { <<>> }
  ELSE { r \in SeqsUpTo({ NewsItem(a.title, a.content, "NewsAPI", "General", "Medium", <<>>) : a \in Articles },
                        IF cap > 0 THEN cap ELSE 0) : TitleUnique(r) }

\* WebScraperTool.scrape_cyber_sites(cap): at most cap relevant items, duplicates kept
ScraperResults(cap) ==
  SeqsUpTo({ NewsItem(a.title, a.content, "https://krebsonsecurity.com", "General", "Medium", <<>>) : a \in Articles },
           IF cap > 0 THEN cap ELSE 0)

\* RedditAPITool.fetch_cybersecurity_posts(cap): at most cap posts, one per title,
\* tagged with the subreddit and the score
RedditResults(cap) ==
  { r \in SeqsUpTo({ NewsItem(a.title, a.content, "Reddit r/netsec", "General", "Medium",
                              <<"reddit-netsec", "score-7">>) : a \in Articles },
                   IF cap > 0 THEN cap ELSE 0) : TitleUnique(r) }

RECURSIVE DedupFrom(_, _, _)
\* the loop of _deduplicate_news over news_items[i..], with seen_titles
DedupFrom(news, i, seen) ==
  IF i > Len(news) THEN <<>>
  ELSE IF TitleKey(news[i]) \notin seen
       THEN <<news[i]>> \o DedupFrom(news, i + 1, seen \cup {TitleKey(news[i])})
       ELSE DedupFrom(news, i + 1, seen)

\* CyberNewsAgent._deduplicate_news
DeduplicateNews(news) == DedupFrom(news, 1, {})

(***************************************************************************)
(* SummarizerTool: the rule-based strategy.                                *)
(***************************************************************************)
\* self.categories, in insertion order
Categories ==
  << [name |-> "Latest Attacks",
      keywords |-> <<"ransomware", "malware", "attack", "breach", "hack", "incident">>],
     [name |-> "Vulnerabilities",
      keywords |-> <<"vulnerability", "exploit", "cve", "zero-day", "patch", "flaw">>],
     [name |-> "New Tools",
      keywords |-> <<"tool", "platform", "software", "solution", "framework", "technology">>],
     [name |-> "Threat Intelligence",
      keywords |-> <<"threat", "intelligence", "apt", "campaign", "actor", "group">>],
     [name |-> "General",
      keywords |-> <<"security", "cybersecurity", "infosec", "policy", "regulation", "compliance">>] >>

\* self.severity_keywords, in insertion order
SeverityKeywords ==
  << [name |-> "High",
      keywords |-> <<"critical", "severe", "urgent", "emergency", "zero-day", "ransomware", "breach">>],
     [name |-> "Medium",
      keywords |-> <<"moderate", "significant", "important", "vulnerability", "exploit">>],
     [name |-> "Low",
      keywords |-> <<"minor", "update", "patch", "tool", "announcement", "guidance">>] >>

\* all_tags of _extract_tags
AllTags ==
  <<"ransomware", "malware", "phishing", "breach", "vulnerability",
    "exploit", "cve", "zero-day", "apt", "threat", "security",
    "cybersecurity", "infosec", "hack", "attack", "incident",
    "tool", "platform", "framework", "policy", "compliance">>

\* cyber_keywords of _generate_rule_based_summary
SummaryKeywords ==
  <<"attack", "breach", "vulnerability", "threat", "security", "malware", "ransomware">>

\* found_tags[:5]
MaxTags == 5
\* item.content[:200]
SummaryMaxLen == 200

\* sum(1 for keyword in keywords if keyword in text)
Score(keywords, text) == Cardinality({ i \in DOMAIN keywords : Contains(text, keywords[i]) })

\* the last entry, in insertion order, with the top score
BestOfLast(table, text) ==
  CHOOSE i \in DOMAIN table :
    /\ \A j \in DOMAIN table : Score(table[j].keywords, text) <= Score(table[i].keywords, text)
    /\ \A j \in (i + 1)..Len(table) : Score(table[j].keywords, text) < Score(table[i].keywords, text)

\* max(scores, key=scores.get): the first entry, in insertion order, with the top score
BestOf(table, text) ==
  CHOOSE i \in DOMAIN table :
    /\ \A j \in DOMAIN table : Score(table[j].keywords, text) <= Score(table[i].keywords, text)
    /\ \A j \in 1..(i - 1) : Score(table[j].keywords, text) < Score(table[i].keywords, text)

\* SummarizerTool._determine_category
DetermineCategory(text) ==
  LET best == BestOf(Categories, text)
  IN IF Score(Categories[best].keywords, text) > 0 THEN Categories[best].name ELSE "General"

\* the default taken to be the last tier
DetermineSeverityDefaultLow(text) ==
  LET best == BestOf(SeverityKeywords, text)
  IN IF Score(SeverityKeywords[best].keywords, text) > 0 THEN SeverityKeywords[best].name ELSE "Low"

\* SummarizerTool._determine_severity
DetermineSeverity(text) ==
  LET best == BestOf(SeverityKeywords, text)
  IN IF Score(SeverityKeywords[best].keywords, text) > 0 THEN SeverityKeywords[best].name ELSE "Medium"

RECURSIVE FoundTags(_, _)
\* [tag for tag in all_tags if tag in content_text], from position i
FoundTags(text, i) ==
  IF i > Len(AllTags) THEN <<>>
  ELSE (IF Contains(text, AllTags[i]) THEN <<AllTags[i]>> ELSE <<>>) \o FoundTags(text, i + 1)

\* the limit applied from the end: found_tags[-5:]
ExtractTagsLast(text) ==
  LET found == FoundTags(text, 1)
  IN SubSeq(found, Len(found) - Min(MaxTags, Len(found)) + 1, Len(found))

\* SummarizerTool._extract_tags
ExtractTags(text) == Take(FoundTags(text, 1), MaxTags)

\* str.find(sep) + 1: position of the first occurrence of sep in s, 0 when absent
Find(s, sep) ==
  IF Contains(s, sep)
  THEN CHOOSE i \in 1..(Len(s) - Len(sep) + 1) :
         /\ SubSeq(s, i, i + Len(sep) - 1) = sep
         /\ \A j \in 1..(i - 1) : SubSeq(s, j, j + Len(sep) - 1) # sep
  ELSE 0

RECURSIVE Split(_, _)
\* str.split(sep)
Split(s, sep) ==
  LET i == Find(s, sep)
  IN IF i = 0 THEN <<s>>
     ELSE <<SubSeq(s, 1, i - 1)>> \o Split(SubSeq(s, i + Len(sep), Len(s)), sep)

RECURSIVE BestSentenceLastOnTie(_, _, _, _)
\* the loop replacing best_sentence on an equal count as well
BestSentenceLastOnTie(sentences, i, best, maxKeywords) ==
  IF i > Len(sentences) THEN best
  ELSE LET count == Score(SummaryKeywords, Lower(sentences[i]))
       IN IF count >= maxKeywords /\ count > 0
          THEN BestSentenceLastOnTie(sentences, i + 1, sentences[i], count)
          ELSE BestSentenceLastOnTie(sentences, i + 1, best, maxKeywords)

RECURSIVE BestSentence(_, _, _, _)
\* the loop over sentences[1:] keeping best_sentence and max_keywords
BestSentence(sentences, i, best, maxKeywords) ==
  IF i > Len(sentences) THEN best
  ELSE LET count == Score(SummaryKeywords, Lower(sentences[i]))
       IN IF count > maxKeywords
          THEN BestSentence(sentences, i + 1, sentences[i], count)
          ELSE BestSentence(sentences, i + 1, best, maxKeywords)

\* text[:200] + "..." if len(text) > 200 else text
Truncate(text) ==
  IF Len(text) > SummaryMaxLen THEN SubSeq(text, 1, SummaryMaxLen) \o "..." ELSE text

\* SummarizerTool._generate_rule_based_summary
GenerateRuleBasedSummary(item) ==
  LET sentences == Split(item.content, ". ")
  IN IF Len(sentences) > 1
     THEN LET best == BestSentence(sentences, 2, "", 0)
          IN IF best # "" /\ best # sentences[1]
             THEN sentences[1] \o ". " \o best \o "."
             ELSE sentences[1] \o "."
     ELSE Truncate(item.content)

\* SummarizerTool._analyze_with_rules
AnalyzeWithRules(item) ==
  LET content_text == Lower(item.title \o " " \o item.content)
  IN [summary |-> GenerateRuleBasedSummary(item),
      category |-> DetermineCategory(content_text),
      severity |-> DetermineSeverity(content_text),
      tags |-> ExtractTags(content_text)]

\* SummarizerTool._analyze_with_rules_from_text
AnalyzeWithRulesFromText(text) ==
  LET content_text == Lower(text)
  IN [summary |-> Truncate(text),
      category |-> DetermineCategory(content_text),
      severity |-> DetermineSeverity(content_text),
      tags |-> ExtractTags(content_text)]

\* _analyze_with_rules on the texts of the model, computed once
RuleAnalysis == [a \in Articles |-> AnalyzeWithRules(a)]

\* self._analyze_with_rules(item)
RulesFor(item) == RuleAnalysis[[title |-> item.title, content |-> item.content]]

(***************************************************************************)
(* SummarizerTool: the generative strategy.                                *)
(***************************************************************************)
\* a JSON array where a string was asked for; a Python list, which cannot be
\* hashed
JsonArray == "<json array>"
IsHashable(v) == v # JsonArray

\* dict.get(key, default)
Get(d, key, default) == IF key \in DOMAIN d THEN d[key] ELSE default

\* what model.generate_content can answer: text holding a JSON object (given
\* here by the object json.loads returns) or text without one
GeminiResponses ==
  { [json |-> TRUE, text |-> "",
     analysis |-> [summary |-> "Bank hit by ransomware", category |-> "Latest Attacks",
                   severity |-> "High", tags |-> <<"ransomware", "bank">>]],
    [json |-> TRUE, text |-> "",
     analysis |-> [category |-> "Malware", severity |-> "Critical",
                   tags |-> <<"malware">>]],
    [json |-> TRUE, text |-> "",
     analysis |-> [summary |-> "Nothing notable"]],
    [json |-> TRUE, text |-> "",
     analysis |-> [summary |-> "Two labels", category |-> JsonArray, severity |-> "Low",
                   tags |-> <<>>]],
    [json |-> TRUE, text |-> "",
     analysis |-> [summary |-> "Breach at a bank", category |-> "Latest Attacks",
                   severity |-> "High",
                   tags |-> <<"breach", "bank", "finance", "data", "europe", "gdpr">>]],
    [json |-> FALSE, text |-> "Severe phishing incident", analysis |-> [summary |-> ""]] }

\* messages of the exceptions model.generate_content can raise
GeminiErrors == { "429 Resource has been exhausted", "Quota exceeded for model", "Deadline Exceeded" }

\* SummarizerTool._parse_gemini_response
ParseGeminiResponse(response) ==
  IF response.json
  THEN [summary |-> Get(response.analysis, "summary", ""),
        category |-> Get(response.analysis, "category", "General"),
        severity |-> Get(response.analysis, "severity", "Medium"),
        tags |-> Get(response.analysis, "tags", <<>>)]
  ELSE AnalyzeWithRulesFromText(response.text)

\* _parse_gemini_response on the responses of the model, computed once
ParsedResponse == [r \in GeminiResponses |-> ParseGeminiResponse(r)]

\* quota test without lower(): "Quota exceeded" is not recognised
IsQuotaErrorCaseSensitive(error_msg) == Contains(error_msg, "quota") \/ Contains(error_msg, "429")

\* the test of the except branch of _analyze_with_gemini
IsQuotaError(error_msg) == Contains(Lower(error_msg), "quota") \/ Contains(error_msg, "429")

(***************************************************************************)
(* CyberNewsAgent: bucketing and statistics.                               *)
(***************************************************************************)
\* bucket choice that sends an unknown category to the first key
BucketOfUnknownFirst(item) ==
  IF item.category \in CategorySet THEN item.category ELSE CategoryKeys[1]

\* the bucket get_categorized_news appends an item to
BucketOf(item) == IF item.category \in CategorySet THEN item.category ELSE "General"

RECURSIVE CategorizeFrom(_, _, _)
\* the loop of get_categorized_news over news_items[i..]
CategorizeFrom(items, i, categorized) ==
  IF i > Len(items) THEN categorized
  ELSE CategorizeFrom(items, i + 1,
         [categorized EXCEPT ![BucketOf(items[i])] = Append(@, items[i])])

\* CyberNewsAgent.get_categorized_news (for items whose category can be hashed)
GetCategorizedNews(items) == CategorizeFrom(items, 1, [c \in CategorySet |-> <<>>])

RECURSIVE StatsFrom(_, _, _)
\* the loop of get_severity_stats over news_items[i..]
StatsFrom(items, i, stats) ==
  IF i > Len(items) THEN stats
  ELSE StatsFrom(items, i + 1,
         IF items[i].severity \in SeveritySet
         THEN [stats EXCEPT ![items[i].severity] = @ + 1] ELSE stats)

\* CyberNewsAgent.get_severity_stats (for items whose severity can be hashed)
GetSeverityStats(items) == StatsFrom(items, 1, [s \in SeveritySet |-> 0])

\* `category in categorized` and `severity in stats` hash the value: a list
\* raises TypeError
LookupRaises(items) ==
  \E i \in DOMAIN items : ~IsHashable(items[i].category) \/ ~IsHashable(items[i].severity)

\* what ReportGeneratorTool.generate_daily_digest returns for an empty list
NoNewsDigest == "No cybersecurity news items available for today's digest."
\* what CyberNewsAgent.generate_daily_digest returns when the report generator raises
DigestUnavailable == "Unable to generate daily digest at this time."
\* a digest text produced by the report generator
DigestText == "CYBERSECURITY DAILY DIGEST"

(***************************************************************************)
(* State.                                                                  *)
(***************************************************************************)
VARIABLES
  production,      \* os.getenv('FLASK_ENV') == 'production'
  use_gemini,      \* SummarizerTool.use_gemini
  pc,              \* position of the caller inside run_full_pipeline
  runs,            \* run_full_pipeline calls started so far
  max_items,       \* the max_items argument of the current call
  all_news,        \* collect_news: all_news
  called,          \* connectors collect_news has invoked in this call
  failed,          \* the connector whose call raised, or "none"
  news_items,      \* what collect_news returned
  analyzed_items,  \* analyze_and_categorize: analyzed_items
  paths,           \* the path analyze_news_item took for each item analysed
  daily_digest,    \* what generate_daily_digest returned
  result,          \* what run_full_pipeline returned (when pc = "done")
  search_items,    \* search_news: the news_items argument
  search_query,    \* search_news: the query argument
  search_result,   \* search_news: the returned list
  searched         \* search_news has been called

pipelineVars == <<production, use_gemini, pc, runs, max_items, all_news, called, failed,
                  news_items, analyzed_items, paths, daily_digest, result>>
searchVars == <<search_items, search_query, search_result, searched>>

VARIABLES
  subscribers,       \* NotificationService.subscribers
  subscribers_file,  \* the lines of subscribers.txt
  loaded,            \* what _load_subscribers returned at construction
  handlers           \* the add_subscriber / remove_subscriber call of each request handler

subscriberVars == <<subscribers, subscribers_file, loaded, handlers>>

VARIABLES
  clock,       \* datetime.now(), in seconds, and the number of times it has advanced
  news_cache,  \* app.news_cache: data, whether data is not None, timestamp
  writer,      \* the request handler of index or api_refresh
  produced,    \* the results run_full_pipeline has returned to the handlers
  reader       \* the request handler of a route that reads news_cache

cacheVars == <<clock, news_cache, writer, produced, reader>>

VARIABLES
  is_running,  \* NotificationService.is_running
  jobs,        \* the number of jobs registered with the schedule module
  loops        \* the run_scheduler threads started so far, each at its statement

schedulerVars == <<is_running, jobs, loops>>

VARIABLES
  credentials,   \* whether the Reddit client id and secret, and the NewsAPI key, are configured
  reddit_token,  \* RedditAPITool.access_token (0 for None) and token_expires
  fetched        \* the last connector call: its list, the token exchange, the token sent

connectorVars == <<credentials, reddit_token, fetched>>

VARIABLES
  rule_call  \* a direct _analyze_with_rules call: its item, whether made, what it returned

VARIABLES
  config,       \* whether the e-mail account and the webhook URL are configured
  notification  \* a daily job or test notification: its statement, its items, what it sent

notifyVars == <<config, notification>>

serviceVars == <<subscriberVars, cacheVars, schedulerVars, connectorVars, rule_call, notifyVars>>
nonSubscriberVars == <<pipelineVars, searchVars, cacheVars, schedulerVars, connectorVars, rule_call, notifyVars>>
nonCacheVars == <<pipelineVars, searchVars, subscriberVars, schedulerVars, connectorVars, rule_call, notifyVars>>
nonSchedulerVars == <<pipelineVars, searchVars, subscriberVars, cacheVars, connectorVars, rule_call, notifyVars>>
vars == <<pipelineVars, searchVars, serviceVars>>

\* the value of result while no call has returned
NoResult == <<>>

(***************************************************************************)
(* run_full_pipeline, step 1: collect_news.                                *)
(***************************************************************************)
\* a caller invokes run_full_pipeline(m)
StartPipeline(m) ==
  /\ pc \in {"idle", "done", "raised"}
  /\ runs < MaxRuns
  /\ runs' = runs + 1
  /\ max_items' = m
  /\ all_news' = <<>>
  /\ called' = {}
  /\ failed' = "none"
  /\ news_items' = <<>>
  /\ analyzed_items' = <<>>
  /\ paths' = <<>>
  /\ daily_digest' = ""
  /\ result' = NoResult
  /\ pc' = "news_api"
  /\ UNCHANGED <<production, use_gemini, searchVars, serviceVars>>

\* the except branch of collect_news: log and return []
CollectFails(connector) ==
  /\ called' = called \cup {connector}
  /\ failed' = connector
  /\ news_items' = <<>>
  /\ pc' = "analyze"
  /\ UNCHANGED all_news

\* news_api_items = self.news_api.fetch_cybersecurity_news(max_items // 3)
FetchNewsApi ==
  /\ pc = "news_api"
  /\ \/ \E r \in NewsApiResults(max_items \div 3, production) :
          /\ all_news' = all_news \o r
          /\ called' = called \cup {"news_api"}
          /\ pc' = "web_scraper"
          /\ UNCHANGED <<failed, news_items>>
     \/ CollectFails("news_api")
  /\ UNCHANGED <<production, use_gemini, runs, max_items, analyzed_items, paths,
                 daily_digest, result, searchVars, serviceVars>>

\* scraped_items = self.web_scraper.scrape_cyber_sites(max_items // 3)
ScrapeCyberSites ==
  /\ pc = "web_scraper"
  /\ \/ \E r \in ScraperResults(max_items \div 3) :
          /\ all_news' = all_news \o r
          /\ called' = called \cup {"web_scraper"}
          /\ pc' = "reddit_api"
          /\ UNCHANGED <<failed, news_items>>
     \/ CollectFails("web_scraper")
  /\ UNCHANGED <<production, use_gemini, runs, max_items, analyzed_items, paths,
                 daily_digest, result, searchVars, serviceVars>>

\* truncation to the per-connector share instead of max_items
TruncatedPerConnector(deduplicated, m) == Take(deduplicated, m \div 3)

\* deduplicated_news[:max_items]
Truncated(deduplicated, m) == Take(deduplicated, m)

\* reddit_items = self.reddit_api.fetch_cybersecurity_posts(max_items // 3), then
\* the deduplication and the return of collect_news
FetchReddit ==
  /\ pc = "reddit_api"
  /\ \/ \E r \in RedditResults(max_items \div 3) :
          /\ all_news' = all_news \o r
          /\ called' = called \cup {"reddit_api"}
          /\ news_items' = Truncated(DeduplicateNews(all_news'), max_items)
          /\ pc' = "analyze"
          /\ UNCHANGED failed
     \/ CollectFails("reddit_api")
  /\ UNCHANGED <<production, use_gemini, runs, max_items, analyzed_items, paths,
                 daily_digest, result, searchVars, serviceVars>>

(***************************************************************************)
(* run_full_pipeline, step 2: analyze_and_categorize.                      *)
(***************************************************************************)
\* item.summary, item.category, item.severity, item.tags = analysis.get(...)
UpdateItem(item, analysis) ==
  [item EXCEPT !.summary = analysis.summary, !.category = analysis.category,
               !.severity = analysis.severity, !.tags = analysis.tags]

\* what one analyze_news_item call did: whether model.generate_content was
\* invoked, the message of the exception it raised ("" when none), whether the
\* call itself raised
Path(primary, error, raised) == [primary |-> primary, error |-> error, raised |-> raised]

\* loop body that puts the updated item in front of the output list
AnalyzedPrepended(item, analysis, path) ==
  /\ analyzed_items' = <<UpdateItem(item, analysis)>> \o analyzed_items
  /\ paths' = Append(paths, path)

\* the try body of the loop completed: the item is updated and appended
Analyzed(item, analysis, path) ==
  /\ analyzed_items' = Append(analyzed_items, UpdateItem(item, analysis))
  /\ paths' = Append(paths, path)

\* except branch that resets the failing item to the classification defaults
AnalysisFailedReset(item, path) ==
  /\ analyzed_items' = Append(analyzed_items,
                              [item EXCEPT !.summary = "", !.category = "General",
                                           !.severity = "Medium", !.tags = <<>>])
  /\ paths' = Append(paths, path)

\* the except branch of the loop: the item is appended as it is
AnalysisFailed(item, path) ==
  /\ analyzed_items' = Append(analyzed_items, item)
  /\ paths' = Append(paths, path)

\* strategy selection that looks at the credential only
PrimarySelectedByCredential == use_gemini

\* the branch of analyze_news_item that goes to _analyze_with_gemini
PrimarySelected == ~production /\ use_gemini

\* the flag cleared by every exception, whatever its message
AfterErrorAlwaysDisabled(error_msg) == FALSE

\* the flag after an exception with this message in _analyze_with_gemini
AfterError(error_msg) == IF IsQuotaError(error_msg) THEN FALSE ELSE use_gemini

\* one iteration of the loop of analyze_and_categorize, on the next item of
\* the list collect_news returned
AnalyzeItem ==
  /\ pc = "analyze"
  /\ Len(analyzed_items) < Len(news_items)
  /\ LET item == news_items[Len(analyzed_items) + 1]
     IN IF PrimarySelected
        THEN \/ \E response \in GeminiResponses :
                  /\ Analyzed(item, ParsedResponse[response], Path(TRUE, "", FALSE))
                  /\ UNCHANGED use_gemini
             \/ \E error_msg \in GeminiErrors :
                  /\ use_gemini' = AfterError(error_msg)
                  /\ \/ Analyzed(item, RulesFor(item), Path(TRUE, error_msg, FALSE))
                     \/ AnalysisFailed(item, Path(TRUE, error_msg, TRUE))
        ELSE /\ \/ Analyzed(item, RulesFor(item), Path(FALSE, "", FALSE))
                \/ AnalysisFailed(item, Path(FALSE, "", TRUE))
             /\ UNCHANGED use_gemini
  /\ UNCHANGED <<production, pc, runs, max_items, all_news, called, failed, news_items,
                 daily_digest, result, searchVars, serviceVars>>

(***************************************************************************)
(* run_full_pipeline, steps 3 to 5 and the return.                         *)
(***************************************************************************)
\* CyberNewsAgent.generate_daily_digest: the report generator's text, or the
\* fixed message when the report generator raises
GenerateDailyDigest ==
  /\ pc = "analyze"
  /\ Len(analyzed_items) = Len(news_items)
  /\ daily_digest' \in (IF analyzed_items = <<>> THEN {NoNewsDigest}
                        ELSE {DigestText, DigestUnavailable})
  /\ pc' = "assemble"
  /\ UNCHANGED <<production, use_gemini, runs, max_items, all_news, called, failed,
                 news_items, analyzed_items, paths, result, searchVars, serviceVars>>

\* the dict run_full_pipeline builds; the timestamp is the number of the run
PipelineResult(items, digest, run) ==
  [news_items |-> items,
   categorized_news |-> GetCategorizedNews(items),
   daily_digest |-> digest,
   severity_stats |-> GetSeverityStats(items),
   total_items |-> Len(items),
   timestamp |-> run]

\* get_categorized_news, get_severity_stats and the return of the result; a
\* TypeError of either lookup leaves run_full_pipeline as an exception
AssembleResult ==
  /\ pc = "assemble"
  /\ IF LookupRaises(analyzed_items)
     THEN /\ pc' = "raised"
          /\ UNCHANGED result
     ELSE /\ pc' = "done"
          /\ result' = PipelineResult(analyzed_items, daily_digest, runs)
  /\ UNCHANGED <<production, use_gemini, runs, max_items, all_news, called, failed,
                 news_items, analyzed_items, paths, daily_digest, searchVars, serviceVars>>

(***************************************************************************)
(* search_news.                                                            *)
(***************************************************************************)
\* search condition that ignores the tags
MatchesTitleContent(query_lower, item) ==
  \/ Contains(Lower(item.title), query_lower)
  \/ Contains(Lower(item.content), query_lower)

\* the condition of the loop body of search_news
Matches(query_lower, item) ==
  \/ Contains(Lower(item.title), query_lower)
  \/ Contains(Lower(item.content), query_lower)
  \/ \E t \in DOMAIN item.tags : Contains(Lower(item.tags[t]), query_lower)

RECURSIVE SearchFrom(_, _, _)
\* the loop of search_news over news_items[i..]
SearchFrom(query_lower, items, i) ==
  IF i > Len(items) THEN <<>>
  ELSE (IF Matches(query_lower, items[i]) THEN <<items[i]>> ELSE <<>>)
       \o SearchFrom(query_lower, items, i + 1)

\* CyberNewsAgent.search_news
SearchNews(query, items) == SearchFrom(Lower(query), items, 1)

\* longest list handed to search_news
MaxSearchItems == 3

\* queries a user types
Queries == { "", "RANSOM", "platform", "Reddit", "newsapi", "fixed. exploit" }

\* classified items a caller can hold: connector items after rule-based
\* analysis, after generative analysis, and unanalysed
SearchPool ==
  { UpdateItem(NewsItem(a.title, a.content, "NewsAPI", "General", "Medium", <<>>),
               RuleAnalysis[a]) : a \in Articles }
  \cup { NewsItem(a.title, a.content, "Reddit r/netsec", "General", "Medium",
                  <<"reddit-netsec", "score-7">>) : a \in { b \in Articles : b.title = "New Tool" } }
  \cup { UpdateItem(NewsItem(a.title, a.content, "NewsAPI", "General", "Medium", <<>>),
                    ParsedResponse[r]) :
           a \in { b \in Articles : b.title = "Patch Notes" },
           r \in { g \in GeminiResponses : "tags" \in DOMAIN g.analysis /\ g.analysis.tags # <<>> } }

\* a caller invokes search_news(query, search_items)
Search(query) ==
  /\ search_query' = query
  /\ search_result' = SearchNews(query, search_items)
  /\ searched' = TRUE
  /\ UNCHANGED <<pipelineVars, search_items, serviceVars>>

(***************************************************************************)
(* NotificationService: the subscriber list (tools/notification_service.py) *)
(***************************************************************************)
\* request-handler threads of the web application
MaxHandlers == 2
Handlers == 1..MaxHandlers

\* addresses a caller passes to add_subscriber / remove_subscriber
EmailInputs == { "a@x.io", " A@X.io", "b@x.io" }

\* contents subscribers.txt can have when the service is constructed; an
\* absent file loads like an empty one
InitialFiles ==
  { <<>>,
    <<"a@x.io\n">>,
    <<"B@x.io \n", "\n", "b@x.io\n">> }

\* normalization that only trims
NormalizeTrimOnly(email) == Strip(email)

\* email.strip().lower()
Normalize(email) == Lower(Strip(email))

\* Normalize on the texts of the model, computed once
Normalized ==
  [e \in EmailInputs \cup UNION { { f[i] : i \in DOMAIN f } : f \in InitialFiles } |->
     Normalize(e)]

\* _load_subscribers: set(line.strip().lower() for line in f if line.strip())
LoadSubscribers(file) ==
  { Normalized[file[i]] : i \in { j \in DOMAIN file : Strip(file[j]) # "" } }

\* the addresses of the model in the order sorted() puts them
AddressOrder == <<"A@X.io", "B@x.io", "a@x.io", "b@x.io">>

\* sorted(self.subscribers)
Sorted(set) == SelectSeq(AddressOrder, LAMBDA a : a \in set)

\* the lines _save_subscribers writes for a sorted list
Lines(sorted) == [i \in DOMAIN sorted |-> sorted[i] \o "\n"]

\* a handler that has made no call yet; of a call: the statement it is at,
\* the operation, the argument, the local variable email, self.subscribers
\* when the call was made, the list sorted() returned, the return value
NoCall ==
  [pc |-> "idle", op |-> "none", arg |-> "", email |-> "", before |-> {},
   snapshot |-> <<>>, returned |-> FALSE]

\* a call is between its first and its last statement
InFlight(h) == handlers[h].pc \in {"check", "mutate", "snapshot", "write"}

\* handler h calls add_subscriber(email) or remove_subscriber(email)
Call(h, op, email) ==
  /\ handlers[h].pc \in {"idle", "done", "raised"}
  /\ handlers' = [handlers EXCEPT ![h] =
                    [pc |-> "check", op |-> op, arg |-> email, email |-> Normalized[email],
                     before |-> subscribers, snapshot |-> <<>>, returned |-> FALSE]]
  /\ UNCHANGED <<subscribers, subscribers_file, loaded, nonSubscriberVars>>

\* `if email in self.subscribers`: add returns False when present, remove
\* returns False when absent
CheckMember(h) ==
  /\ handlers[h].pc = "check"
  /\ LET present == handlers[h].email \in subscribers
     IN handlers' = [handlers EXCEPT ![h].pc =
                       IF present = (handlers[h].op = "remove") THEN "mutate" ELSE "done"]
  /\ UNCHANGED <<subscribers, subscribers_file, loaded, nonSubscriberVars>>

\* self.subscribers.add(email) / self.subscribers.remove(email); remove of an
\* address no longer in the set raises KeyError
Mutate(h) ==
  /\ handlers[h].pc = "mutate"
  /\ IF handlers[h].op = "add"
     THEN /\ subscribers' = subscribers \cup {handlers[h].email}
          /\ handlers' = [handlers EXCEPT ![h].pc = "snapshot"]
     ELSE IF handlers[h].email \in subscribers
          THEN /\ subscribers' = subscribers \ {handlers[h].email}
               /\ handlers' = [handlers EXCEPT ![h].pc = "snapshot"]
          ELSE /\ handlers' = [handlers EXCEPT ![h].pc = "raised"]
               /\ UNCHANGED subscribers
  /\ UNCHANGED <<subscribers_file, loaded, nonSubscriberVars>>

\* _save_subscribers: open(self.subscribers_file, 'w') and sorted(self.subscribers)
Snapshot(h) ==
  /\ handlers[h].pc = "snapshot"
  /\ handlers' = [handlers EXCEPT ![h].pc = "write", ![h].snapshot = Sorted(subscribers)]
  /\ UNCHANGED <<subscribers, subscribers_file, loaded, nonSubscriberVars>>

\* _save_subscribers: the lines reach the file when it is closed; the call
\* then returns True (the welcome e-mail of add_subscriber changes no state)
WriteFile(h) ==
  /\ handlers[h].pc = "write"
  /\ subscribers_file' = Lines(handlers[h].snapshot)
  /\ handlers' = [handlers EXCEPT ![h].pc = "done", ![h].returned = TRUE]
  /\ UNCHANGED <<subscribers, loaded, nonSubscriberVars>>

\* a call made while no other call is in flight
SerialCall(h, op, email) ==
  /\ \A g \in Handlers : ~InFlight(g)
  /\ Call(h, op, email)

\* the one call of a handler, made while other handlers may be in flight
ConcurrentCall(h, op, email) ==
  /\ handlers[h].pc = "idle"
  /\ Call(h, op, email)

(***************************************************************************)
(* The web application's cache of the latest pipeline result (app.py).     *)
(***************************************************************************)
\* news_cache['cache_duration']
CacheDuration == 3600
\* timedelta.seconds is the part of the difference below one day
SecondsPerDay == 86400
\* pipeline runs the handlers start in one behaviour
MaxRefreshes == 2
\* times the clock advances in one behaviour
MaxTicks == 2
\* the seconds that can pass between two steps
Delays == { 3601, 86400 }

\* news_cache['timestamp'] is None
NoTimestamp == -1

\* the module-level news_cache
EmptyCache == [data |-> NoResult, has_data |-> FALSE, timestamp |-> NoTimestamp]

\* classified item lists a pipeline run can end with
CacheItemLists ==
  LET classified(a) == UpdateItem(NewsItem(a.title, a.content, "NewsAPI", "General", "Medium", <<>>),
                                  RuleAnalysis[a])
  IN { <<>> } \cup { <<classified(a)>> : a \in { b \in Articles : b.title = "Patch Notes" } }

\* the results run number `run` of run_full_pipeline can return
PipelineResults(run) ==
  { PipelineResult(items, IF items = <<>> THEN NoNewsDigest ELSE DigestText, run) :
      items \in CacheItemLists }

\* the keys of news_cache['data'] each route reads, one news_cache['data']
\* lookup per key, in the order of the lookups
FieldsRead ==
  [search |-> <<"news_items">>,
   digest |-> <<"daily_digest">>,
   export |-> <<"news_items">>,
   api_news |-> <<"news_items", "categorized_news", "daily_digest", "severity_stats",
                  "total_items", "timestamp">>]

\* a handler between two requests
Waiting == [pc |-> "idle", route |-> "none", result |-> NoResult, runs |-> 0]

\* the reading handler before its first request
NoRequest == [pc |-> "idle", route |-> "none", response |-> <<>>]

\* time passes
Tick(d) ==
  /\ clock.ticks < MaxTicks
  /\ clock' = [now |-> clock.now + d, ticks |-> clock.ticks + 1]
  /\ UNCHANGED <<news_cache, writer, produced, reader, nonCacheVars>>

\* the cache check of index
Stale ==
  \/ ~news_cache.has_data
  \/ news_cache.timestamp = NoTimestamp
  \/ (clock.now - news_cache.timestamp) % SecondsPerDay > CacheDuration

\* GET /: with a fresh cache the page is rendered from news_cache['data'],
\* otherwise the handler goes on to run the pipeline
IndexRequest ==
  /\ writer.pc = "idle"
  /\ IF Stale
     THEN /\ writer.runs < MaxRefreshes
          /\ writer' = [writer EXCEPT !.pc = "run", !.route = "index"]
     ELSE writer' = [writer EXCEPT !.route = "index"]
  /\ UNCHANGED <<clock, news_cache, produced, reader, nonCacheVars>>

\* GET /api/refresh
ApiRefreshRequest ==
  /\ writer.pc = "idle"
  /\ writer.runs < MaxRefreshes
  /\ writer' = [writer EXCEPT !.pc = "run", !.route = "api_refresh"]
  /\ UNCHANGED <<clock, news_cache, produced, reader, nonCacheVars>>

\* result = cyber_agent.run_full_pipeline(max_items=50); an exception ends the
\* handler in its except branch with the cache as it was
RunPipeline ==
  /\ writer.pc = "run"
  /\ \/ \E r \in PipelineResults(writer.runs + 1) :
          /\ writer' = [writer EXCEPT !.pc = "store_data", !.result = r, !.runs = @ + 1]
          /\ produced' = produced \cup {r}
     \/ /\ writer' = [writer EXCEPT !.pc = "idle", !.runs = @ + 1]
        /\ UNCHANGED produced
  /\ UNCHANGED <<clock, news_cache, reader, nonCacheVars>>

\* news_cache['data'] = result
StoreData ==
  /\ writer.pc = "store_data"
  /\ news_cache' = [news_cache EXCEPT !.data = writer.result, !.has_data = TRUE]
  /\ writer' = [writer EXCEPT !.pc = "store_timestamp"]
  /\ UNCHANGED <<clock, produced, reader, nonCacheVars>>

\* news_cache['timestamp'] = datetime.now(); the response is built from the
\* handler's own result
StoreTimestamp ==
  /\ writer.pc = "store_timestamp"
  /\ news_cache' = [news_cache EXCEPT !.timestamp = clock.now]
  /\ writer' = [writer EXCEPT !.pc = "idle"]
  /\ UNCHANGED <<clock, produced, reader, nonCacheVars>>

\* a request to /search, /digest, /api/news or an /export route: without data
\* the handler answers at once
ReadRequest(route) ==
  /\ reader.pc \in {"idle", "done"}
  /\ reader' = [pc |-> IF news_cache.has_data THEN "reading" ELSE "done",
                route |-> route, response |-> <<>>]
  /\ UNCHANGED <<clock, news_cache, writer, produced, nonCacheVars>>

\* the next news_cache['data'][key] lookup of the handler
ReadField ==
  /\ reader.pc = "reading"
  /\ LET fields == FieldsRead[reader.route]
         response == Append(reader.response, news_cache.data[fields[Len(reader.response) + 1]])
     IN reader' = [reader EXCEPT !.response = response,
                                 !.pc = IF Len(response) = Len(fields) THEN "done" ELSE "reading"]
  /\ UNCHANGED <<clock, news_cache, writer, produced, nonCacheVars>>

(***************************************************************************)
(* NotificationService: the daily scheduler.                               *)
(***************************************************************************)
\* run_scheduler threads started in one behaviour
MaxStarts == 3

\* start_daily_scheduler: nothing when already running, else the flag is set,
\* the daily job registered and a run_scheduler thread started
StartDailyScheduler ==
  /\ Len(loops) < MaxStarts
  /\ IF is_running
     THEN UNCHANGED <<is_running, jobs, loops>>
     ELSE /\ is_running' = TRUE
          /\ jobs' = jobs + 1
          /\ loops' = Append(loops, "while")
  /\ UNCHANGED nonSchedulerVars

\* stop_daily_scheduler: self.is_running = False; schedule.clear()
StopDailyScheduler ==
  /\ is_running' = FALSE
  /\ jobs' = 0
  /\ UNCHANGED <<loops, nonSchedulerVars>>

\* run_scheduler of thread i: `while self.is_running`
LoopTest(i) ==
  /\ loops[i] = "while"
  /\ loops' = [loops EXCEPT ![i] = IF is_running THEN "run_pending" ELSE "ended"]
  /\ UNCHANGED <<is_running, jobs, nonSchedulerVars>>

\* run_scheduler of thread i: schedule.run_pending()
RunPending(i) ==
  /\ loops[i] = "run_pending"
  /\ loops' = [loops EXCEPT ![i] = "sleep"]
  /\ UNCHANGED <<is_running, jobs, nonSchedulerVars>>

\* run_scheduler of thread i: time.sleep(60) returns
Wake(i) ==
  /\ loops[i] = "sleep"
  /\ loops' = [loops EXCEPT ![i] = "while"]
  /\ UNCHANGED <<is_running, jobs, nonSchedulerVars>>

(***************************************************************************)
(* The connectors' fetch entry points (tools/reddit_api.py, news_api.py).  *)
(***************************************************************************)
\* largest max_items argument of a connector call
MaxFetch == 2

\* mock_posts of RedditAPITool._get_mock_posts, as the NewsItems it builds
MockPosts ==
  << NewsItem("New Ransomware Campaign Targeting Healthcare Organizations",
              "Security researchers have identified a new ransomware variant specifically targeting healthcare systems. The malware uses sophisticated encryption and demands payment in cryptocurrency.",
              "Reddit r/cybersecurity", "Latest Attacks", "High",
              <<"reddit", "mock", "cybersecurity">>),
     NewsItem("Zero-Day Vulnerability Found in Popular VPN Software",
              "A critical zero-day vulnerability has been discovered in a widely-used VPN application that could allow remote code execution.",
              "Reddit r/netsec", "Vulnerabilities", "High",
              <<"reddit", "mock", "cybersecurity">>),
     NewsItem("Open Source SIEM Tool Released for Small Businesses",
              "A new open-source Security Information and Event Management (SIEM) solution has been released, designed specifically for small and medium businesses.",
              "Reddit r/security", "New Tools", "Low",
              <<"reddit", "mock", "cybersecurity">>),
     NewsItem("Phishing Campaign Uses AI-Generated Voice Messages",
              "Security researchers report a new phishing campaign that uses AI-generated voice messages to trick victims into revealing sensitive information.",
              "Reddit r/malware", "Threat Intelligence", "Medium",
              <<"reddit", "mock", "cybersecurity">>),
     NewsItem("GDPR Compliance Checklist for Small Businesses",
              "A comprehensive guide to help small businesses understand and implement GDPR compliance requirements.",
              "Reddit r/privacy", "General", "Low",
              <<"reddit", "mock", "cybersecurity">>) >>

\* mock_items of NewsAPITool._get_mock_news_items, as the NewsItems it builds
MockNewsItems ==
  << NewsItem("Major Ransomware Attack Targets Healthcare Sector",
              "A sophisticated ransomware attack has targeted multiple healthcare facilities across the country, causing significant disruption to patient care services.",
              "SecurityWeek", "Latest Attacks", "High",
              <<"mock", "cybersecurity">>),
     NewsItem("New Zero-Day Vulnerability Discovered in Popular Software",
              "Security researchers have identified a critical zero-day vulnerability that could allow remote code execution in widely-used enterprise software.",
              "Dark Reading", "Vulnerabilities", "High",
              <<"mock", "cybersecurity">>),
     NewsItem("AI-Powered Threat Detection Tool Released",
              "A new AI-powered threat detection platform has been launched, promising to revolutionize how organizations identify and respond to cyber threats.",
              "CSO Online", "New Tools", "Low",
              <<"mock", "cybersecurity">>),
     NewsItem("Phishing Campaign Targets Remote Workers",
              "A sophisticated phishing campaign is targeting remote workers with fake collaboration tool notifications, attempting to steal credentials.",
              "Threatpost", "Threat Intelligence", "Medium",
              <<"mock", "cybersecurity">>),
     NewsItem("New Cybersecurity Framework Released by NIST",
              "The National Institute of Standards and Technology has released an updated cybersecurity framework with enhanced guidance for organizations.",
              "Infosecurity Magazine", "General", "Low",
              <<"mock", "cybersecurity">>) >>

\* largest number of posts the subreddits deliver to one call
MaxMerged == 2

\* self.cyber_keywords of RedditAPITool
RedditKeywords ==
  <<"cyberattack", "ransomware", "malware", "phishing", "breach",
    "vulnerability", "exploit", "cve", "zero-day", "apt",
    "threat", "security", "infosec", "cybersecurity", "hack",
    "data breach", "incident response", "SOC", "SIEM", "firewall",
    "intrusion", "backdoor", "trojan", "botnet", "DDoS">>

\* posts _fetch_subreddit_posts can build: titles stripped and longer than 10
\* characters, two pairs of titles that differ only in case
SubredditPosts ==
  { NewsItem(p.title, p.content, "Reddit r/netsec", "General", "Medium",
             <<"reddit-netsec", "score-7">>) :
      p \in { [title |-> "Weekly Thread", content |-> "Weekly Thread\n\nWeekend plans\n\nScore: 7, Comments: 0"],
              [title |-> "WEEKLY THREAD", content |-> "WEEKLY THREAD\n\nPhishing wave\n\nScore: 7, Comments: 0"],
              [title |-> "Ransomware Attack", content |-> "Ransomware Attack\n\nCritical breach\n\nScore: 7, Comments: 0"],
              [title |-> "RANSOMWARE ATTACK", content |-> "RANSOMWARE ATTACK\n\nMinor update\n\nScore: 7, Comments: 0"] } }

\* all_posts: the posts of the subreddits, merged
MergedPosts == SeqsUpTo(SubredditPosts, MaxMerged)

\* any(keyword.lower() in content_text for keyword in self.cyber_keywords)
IsCybersecurityRelated(post) ==
  LET content_text == Lower(post.title \o " " \o post.content)
  IN \E k \in DOMAIN RedditKeywords : Contains(content_text, Lower(RedditKeywords[k]))

\* the keyword test on the posts of the model, computed once
Related == [post \in SubredditPosts |-> IsCybersecurityRelated(post)]

\* title_key = post.title.lower().strip() of the posts of the model, computed once
PostTitleKey == [post \in SubredditPosts |-> Strip(Lower(post.title))]

RECURSIVE FilterFrom(_, _, _)
\* the loop of RedditAPITool._filter_cybersecurity_content over posts[i..]:
\* a post whose title key was seen is skipped; otherwise the key is added to
\* seen_titles, and the post is kept if it holds a keyword
FilterFrom(posts, i, seen_titles) ==
  IF i > Len(posts) THEN <<>>
  ELSE LET title_key == PostTitleKey[posts[i]]
       IN IF title_key \in seen_titles
          THEN FilterFrom(posts, i + 1, seen_titles)
          ELSE (IF Related[posts[i]] THEN <<posts[i]>> ELSE <<>>)
                 \o FilterFrom(posts, i + 1, seen_titles \cup {title_key})

\* RedditAPITool._filter_cybersecurity_content
FilterCybersecurityContent(posts) == FilterFrom(posts, 1, {})

\* expires_in values of a token response
ExpiresIn == { 3600, 86400 }

\* access_token values of a token response; a response carries a token
\* other than the one before it
TokenValues == { 1, 2 }

\* no token has been obtained: access_token is None (0), token_expires is None
NoToken == [access_token |-> 0, token_expires |-> NoTimestamp]

\* no connector has been called
NoFetch ==
  [connector |-> "none", all_posts |-> <<>>, filtered |-> <<>>, items |-> <<>>,
   exchange |-> "none", token |-> 0]

\* the token test alone, whatever the time
IsTokenValidForever == reddit_token.access_token # 0

\* RedditAPITool._is_token_valid
IsTokenValid ==
  /\ reddit_token.access_token # 0
  /\ reddit_token.token_expires # NoTimestamp
  /\ clock.now < reddit_token.token_expires

\* what a fetch with this token and these merged posts returns, after an
\* exchange with this outcome: filtered_posts[:max_items]
Fetched(all_posts, cap, exchange, token) ==
  [connector |-> "reddit", all_posts |-> all_posts,
   filtered |-> FilterCybersecurityContent(all_posts),
   items |-> Take(FilterCybersecurityContent(all_posts), cap),
   exchange |-> exchange, token |-> token]

\* what a fetch that falls back on the mock posts returns
Mocked(cap, exchange) ==
  [connector |-> "reddit", all_posts |-> <<>>, filtered |-> <<>>,
   items |-> Take(MockPosts, cap), exchange |-> exchange, token |-> 0]

\* RedditAPITool.fetch_cybersecurity_posts(cap): with a valid token the posts
\* of the subreddits, requested with self.access_token, filtered and cut to
\* cap; otherwise _get_access_token first, which returns None without
\* credentials, when the request fails and when the response holds no
\* access_token, and then the mock posts.
FetchCybersecurityPosts(cap) ==
  /\ IF IsTokenValid
     THEN /\ \E all_posts \in MergedPosts :
               fetched' = Fetched(all_posts, cap, "none", reddit_token.access_token)
          /\ UNCHANGED reddit_token
     ELSE \/ /\ credentials.reddit
             /\ \E expires_in \in ExpiresIn, access_token \in TokenValues \ {reddit_token.access_token} :
                  /\ reddit_token' = [access_token |-> access_token,
                                      token_expires |-> clock.now + expires_in - 60]
                  /\ \E all_posts \in MergedPosts :
                       fetched' = Fetched(all_posts, cap, "ok", access_token)
          \/ /\ credentials.reddit
             /\ \E expires_in \in ExpiresIn :
                  reddit_token' = [access_token |-> 0,
                                   token_expires |-> clock.now + expires_in - 60]
             /\ fetched' = Mocked(cap, "no_token")
          \/ /\ fetched' = Mocked(cap, IF credentials.reddit THEN "failed" ELSE "none")
             /\ UNCHANGED reddit_token
  /\ UNCHANGED <<credentials, pipelineVars, searchVars, subscriberVars, cacheVars,
                 schedulerVars, rule_call, notifyVars>>

\* NewsAPITool.fetch_cybersecurity_news(cap): nothing in production, the mock
\* items without a key, else what the endpoints delivered
FetchCybersecurityNews(cap) ==
  /\ IF ~production /\ ~credentials.news_api
     THEN fetched' = [NoFetch EXCEPT !.connector = "news_api",
                                     !.items = Take(MockNewsItems, cap)]
     ELSE \E articles \in NewsApiResults(cap, production) :
            fetched' = [NoFetch EXCEPT !.connector = "news_api", !.items = articles]
  /\ UNCHANGED <<credentials, reddit_token, pipelineVars, searchVars, subscriberVars,
                 cacheVars, schedulerVars, rule_call, notifyVars>>

(***************************************************************************)
(* NotificationService: the daily job and its deliveries.                  *)
(***************************************************************************)
\* agent.collect_news(max_items=20)
JobMaxItems == 20

\* what collect_news(20) of a newly constructed agent can return: each
\* connector is asked for 20 // 3 items and delivers its mock items or, with
\* credentials, at most one real item; the lists are merged in the order
\* NewsAPI, scraper, Reddit, deduplicated and cut to 20
CollectNews ==
  LET cap == JobMaxItems \div 3
      news == IF production THEN { <<>> }
              ELSE IF ~credentials.news_api THEN { Take(MockNewsItems, cap) }
              ELSE NewsApiResults(1, FALSE)
      scraped == ScraperResults(1)
      posts == IF ~credentials.reddit THEN { Take(MockPosts, cap) }
               ELSE RedditResults(1) \cup { Take(MockPosts, cap) }
  IN { Truncated(DeduplicateNews(a \o b \o c), JobMaxItems) :
         a \in news, b \in scraped, c \in posts }

\* test_items of send_test_notification
TestItems ==
  << [ NewsItem("Test Cybersecurity Alert", "This is a test notification from CyberNewsAgent",
                "Test Source", "Test", "Medium", <<"test", "notification">>)
       EXCEPT !.summary = "Test notification to verify email/webhook setup" ] >>

\* no notification is under way
NoNotification ==
  [pc |-> "idle", origin |-> "none", news_items |-> <<>>, stages |-> <<>>,
   reported |-> <<>>, emails |-> <<>>, posted |-> FALSE, top_items |-> <<>>, success |-> TRUE]

\* _daily_notification_job up to the call of send_daily_notification: the
\* agent is constructed and collect_news called; an exception ends the job
DailyNotificationJob ==
  /\ notification.pc = "idle"
  /\ \/ \E items \in CollectNews :
          notification' = [notification EXCEPT !.pc = "email", !.origin = "daily",
                                               !.news_items = items, !.stages = <<"collect">>]
     \/ notification' = [notification EXCEPT !.pc = "failed", !.origin = "daily"]
  /\ UNCHANGED <<config, pipelineVars, searchVars, subscriberVars, cacheVars, schedulerVars,
                 connectorVars, rule_call>>

\* send_test_notification up to the call of send_daily_notification
SendTestNotification ==
  /\ notification.pc = "idle"
  /\ notification' = [notification EXCEPT !.pc = "email", !.origin = "test",
                                          !.news_items = TestItems]
  /\ UNCHANGED <<config, pipelineVars, searchVars, subscriberVars, cacheVars, schedulerVars,
                 connectorVars, rule_call>>

\* the orders in which `for subscriber_email in self.subscribers` can visit a set
IterationOrders(set) ==
  { order \in [1..Cardinality(set) -> set] : \A e \in set : \E i \in DOMAIN order : order[i] = e }

\* the loop over the subscribers on the one msg object: msg['To'] = address
\* adds a To header to those already set, and send_message, given no
\* to_addrs, takes the recipients from msg['To'], the first To header; a send
\* that raises is logged and the loop goes on
EmailsSent(order, raising) ==
  LET Delivered(send) == send.iteration \notin raising
  IN SelectSeq([i \in DOMAIN order |->
                  [iteration |-> i, subscriber |-> order[i],
                   to_headers |-> SubSeq(order, 1, i), recipients |-> <<order[1]>>]],
               Delivered)

\* send_daily_notification, the e-mail part: with an account and subscribers,
\* _send_email_notification_to_subscribers builds the report from news_items
\* and sends it in a loop; an exception outside the loop is logged
SendEmailNotificationToSubscribers ==
  /\ notification.pc = "email"
  /\ IF config.email /\ subscribers # {}
     THEN \/ \E order \in IterationOrders(subscribers), raising \in SUBSET (1..Cardinality(subscribers)) :
               notification' = [notification EXCEPT
                                  !.pc = "webhook",
                                  !.reported = notification.news_items,
                                  !.stages = IF EmailsSent(order, raising) = <<>>
                                             THEN @ \o <<"report">>
                                             ELSE @ \o <<"report", "deliver">>,
                                  !.emails = EmailsSent(order, raising)]
          \/ notification' = [notification EXCEPT
                                 !.pc = "webhook",
                                 !.reported = notification.news_items,
                                 !.stages = @ \o <<"report">>,
                                 !.success = FALSE]
     ELSE notification' = [notification EXCEPT !.pc = "webhook"]
  /\ UNCHANGED <<config, pipelineVars, searchVars, subscriberVars, cacheVars, schedulerVars,
                 connectorVars, rule_call>>

\* the severity strings of the items in str order, smallest first
SeverityStrings == <<"High", "Low", "Medium">>

\* sorted(news_items, key=lambda x: x.severity, reverse=True): the items by
\* descending severity string, those of one severity in their original order
RECURSIVE SortedBySeverity(_, _)
SortedBySeverity(items, k) ==
  IF k = 0 THEN <<>>
  ELSE LET HasKey(item) == item.severity = SeverityStrings[k]
       IN SelectSeq(items, HasKey) \o SortedBySeverity(items, k - 1)

\* top_items of _send_webhook_notification
TopItems(items) == Take(SortedBySeverity(items, Len(SeverityStrings)), 5)

\* send_daily_notification, the webhook part: with a webhook URL the payload
\* with the top stories is posted; an exception is logged
SendWebhookNotification ==
  /\ notification.pc = "webhook"
  /\ IF config.webhook
     THEN \/ notification' = [notification EXCEPT
                                 !.pc = "done", !.posted = TRUE,
                                 !.top_items = TopItems(notification.news_items),
                                 !.stages = @ \o <<"deliver">>]
          \/ notification' = [notification EXCEPT !.pc = "done", !.success = FALSE]
     ELSE notification' = [notification EXCEPT !.pc = "done"]
  /\ UNCHANGED <<config, pipelineVars, searchVars, subscriberVars, cacheVars, schedulerVars,
                 connectorVars, rule_call>>

(***************************************************************************)
(* SummarizerTool._analyze_with_rules called on its own.                   *)
(***************************************************************************)
\* the (title, content) pairs the rule-based analysis is applied to
RuleInputs ==
  [title : { "", "Ransomware attack", "Exploit patch", "New Tool", "Threat actor group",
             "Security policy", "Weather", "ZERO-DAY malware" },
   content : { "", "breach and exploit", "platform threat", "cve flaw hack incident",
               "compliance", "Critical update. Minor tool", "security breach",
               "vulnerability in security software solution",
               "phishing malware breach exploit cve apt",
               "Patch released. A breach. The attack and breach",
               "Intro. One attack here. One breach there",
               "Breach reported. Details pending. Breach reported",
               "An advisory on the malware campaign was published by the national agency on Monday; it lists indicators of compromise, affected product versions, interim mitigations, and a timeline for patches that vendors expect to ship over the coming weeks" }]

\* no _analyze_with_rules call has been made
NoRuleCall ==
  [item |-> [title |-> "", content |-> ""], called |-> FALSE,
   analysis |-> [summary |-> "", category |-> "General", severity |-> "Medium", tags |-> <<>>]]

\* analysis = self._analyze_with_rules(item)
CallAnalyzeWithRules ==
  /\ ~rule_call.called
  /\ rule_call' = [rule_call EXCEPT !.called = TRUE, !.analysis = AnalyzeWithRules(rule_call.item)]
  /\ UNCHANGED <<pipelineVars, searchVars, subscriberVars, cacheVars, schedulerVars,
                 connectorVars, notifyVars>>

(***************************************************************************)
(* Specifications.                                                         *)
(***************************************************************************)
\* no run_full_pipeline call has been made
PipelineIdle ==
  /\ pc = "idle"
  /\ runs = 0
  /\ max_items = 0
  /\ all_news = <<>>
  /\ called = {}
  /\ failed = "none"
  /\ news_items = <<>>
  /\ analyzed_items = <<>>
  /\ paths = <<>>
  /\ daily_digest = ""
  /\ result = NoResult

\* no search_news call has been made
SearchIdle ==
  /\ search_items = <<>>
  /\ search_query = ""
  /\ search_result = <<>>
  /\ searched = FALSE

\* a notification service without subscribers that no handler has called
SubscribersIdle ==
  /\ subscribers = {}
  /\ subscribers_file = <<>>
  /\ loaded = {}
  /\ handlers = [h \in Handlers |-> NoCall]

\* the application before its first request
CacheIdle ==
  /\ clock = [now |-> 0, ticks |-> 0]
  /\ news_cache = EmptyCache
  /\ writer = Waiting
  /\ produced = {}
  /\ reader = NoRequest

\* a notification service whose scheduler was never started
SchedulerIdle ==
  /\ is_running = FALSE
  /\ jobs = 0
  /\ loops = <<>>

\* connectors without credentials that were never called
ConnectorsIdle ==
  /\ credentials = [reddit |-> FALSE, news_api |-> FALSE]
  /\ reddit_token = NoToken
  /\ fetched = NoFetch

\* a service without e-mail account and webhook that has sent nothing
NotifyIdle ==
  /\ config = [email |-> FALSE, webhook |-> FALSE]
  /\ notification = NoNotification

\* the parts of the application outside the pipeline and the search, unused
ServiceIdle ==
  SubscribersIdle /\ CacheIdle /\ SchedulerIdle /\ ConnectorsIdle /\ rule_call = NoRuleCall /\ NotifyIdle

\* the agent after construction: GEMINI_API_KEY and FLASK_ENV are read from
\* the environment
Init ==
  /\ production \in BOOLEAN
  /\ use_gemini \in BOOLEAN
  /\ pc = "idle"
  /\ runs = 0
  /\ max_items = 0
  /\ all_news = <<>>
  /\ called = {}
  /\ failed = "none"
  /\ news_items = <<>>
  /\ analyzed_items = <<>>
  /\ paths = <<>>
  /\ daily_digest = ""
  /\ result = NoResult
  /\ search_items = <<>>
  /\ search_query = ""
  /\ search_result = <<>>
  /\ searched = FALSE
  /\ ServiceIdle

Next ==
  \/ \E m \in 0..MaxItemsArg : StartPipeline(m)
  \/ FetchNewsApi
  \/ ScrapeCyberSites
  \/ FetchReddit
  \/ AnalyzeItem
  \/ GenerateDailyDigest
  \/ AssembleResult

Spec == Init /\ [][Next]_vars

\* search_news applied to every list of at most MaxSearchItems classified items
InitSearch ==
  /\ production = FALSE
  /\ use_gemini = FALSE
  /\ pc = "idle"
  /\ runs = 0
  /\ max_items = 0
  /\ all_news = <<>>
  /\ called = {}
  /\ failed = "none"
  /\ news_items = <<>>
  /\ analyzed_items = <<>>
  /\ paths = <<>>
  /\ daily_digest = ""
  /\ result = NoResult
  /\ search_items \in SeqsUpTo(SearchPool, MaxSearchItems)
  /\ search_query = ""
  /\ search_result = <<>>
  /\ searched = FALSE
  /\ ServiceIdle

NextSearch == \E query \in Queries : Search(query)

SpecSearch == InitSearch /\ [][NextSearch]_vars

\* the notification service after construction: subscribers.txt is loaded
InitSubscribers ==
  /\ production = FALSE
  /\ use_gemini = FALSE
  /\ PipelineIdle
  /\ SearchIdle
  /\ subscribers_file \in InitialFiles
  /\ subscribers = LoadSubscribers(subscribers_file)
  /\ loaded = LoadSubscribers(subscribers_file)
  /\ handlers = [h \in Handlers |-> NoCall]
  /\ CacheIdle
  /\ SchedulerIdle
  /\ ConnectorsIdle
  /\ rule_call = NoRuleCall
  /\ NotifyIdle

\* add_subscriber / remove_subscriber called one after the other
NextSubscribers ==
  \/ \E h \in Handlers, op \in {"add", "remove"}, email \in EmailInputs : SerialCall(h, op, email)
  \/ \E h \in Handlers : CheckMember(h)
  \/ \E h \in Handlers : Mutate(h)
  \/ \E h \in Handlers : Snapshot(h)
  \/ \E h \in Handlers : WriteFile(h)

SpecSubscribers == InitSubscribers /\ [][NextSubscribers]_vars

\* add_subscriber / remove_subscriber called by concurrent request handlers,
\* one call each
NextHandlers ==
  \/ \E h \in Handlers, op \in {"add", "remove"}, email \in EmailInputs : ConcurrentCall(h, op, email)
  \/ \E h \in Handlers : CheckMember(h)
  \/ \E h \in Handlers : Mutate(h)
  \/ \E h \in Handlers : Snapshot(h)
  \/ \E h \in Handlers : WriteFile(h)

SpecHandlers == InitSubscribers /\ [][NextHandlers]_vars

\* the web application after start-up: nothing cached
InitCache ==
  /\ production = FALSE
  /\ use_gemini = FALSE
  /\ PipelineIdle
  /\ SearchIdle
  /\ SubscribersIdle
  /\ CacheIdle
  /\ SchedulerIdle
  /\ ConnectorsIdle
  /\ rule_call = NoRuleCall
  /\ NotifyIdle

\* the routes of the application that write and read news_cache
NextCache ==
  \/ \E d \in Delays : Tick(d)
  \/ IndexRequest
  \/ ApiRefreshRequest
  \/ RunPipeline
  \/ StoreData
  \/ StoreTimestamp
  \/ \E route \in DOMAIN FieldsRead : ReadRequest(route)
  \/ ReadField

SpecCache == InitCache /\ [][NextCache]_vars

\* the notification service after construction: the scheduler is started
\* when there are subscribers and the e-mail account is configured
InitScheduler ==
  /\ production = FALSE
  /\ use_gemini = FALSE
  /\ PipelineIdle
  /\ SearchIdle
  /\ SubscribersIdle
  /\ CacheIdle
  /\ is_running \in BOOLEAN
  /\ jobs = (IF is_running THEN 1 ELSE 0)
  /\ loops = (IF is_running THEN <<"while">> ELSE <<>>)
  /\ ConnectorsIdle
  /\ rule_call = NoRuleCall
  /\ NotifyIdle

\* calls of start_daily_scheduler and stop_daily_scheduler and the steps of
\* the run_scheduler threads
NextScheduler ==
  \/ StartDailyScheduler
  \/ StopDailyScheduler
  \/ \E i \in DOMAIN loops : LoopTest(i)
  \/ \E i \in DOMAIN loops : RunPending(i)
  \/ \E i \in DOMAIN loops : Wake(i)

SpecScheduler == InitScheduler /\ [][NextScheduler]_vars

\* the connectors after construction: the credentials and FLASK_ENV are read
\* from the environment
InitConnectors ==
  /\ production \in BOOLEAN
  /\ use_gemini = FALSE
  /\ PipelineIdle
  /\ SearchIdle
  /\ SubscribersIdle
  /\ CacheIdle
  /\ SchedulerIdle
  /\ credentials \in [reddit : BOOLEAN, news_api : BOOLEAN]
  /\ reddit_token = NoToken
  /\ fetched = NoFetch
  /\ rule_call = NoRuleCall
  /\ NotifyIdle

\* connector calls, and time passing between them
NextConnectors ==
  \/ \E cap \in 0..MaxFetch : FetchCybersecurityPosts(cap)
  \/ \E cap \in 0..MaxFetch : FetchCybersecurityNews(cap)
  \/ \E d \in Delays : Tick(d)

SpecConnectors == InitConnectors /\ [][NextConnectors]_vars

\* a sequence of Reddit fetch calls, and time passing between them
NextRedditFetches ==
  \/ FetchCybersecurityPosts(1)
  \/ \E d \in Delays : Tick(d)

SpecRedditFetches == InitConnectors /\ [][NextRedditFetches]_vars

\* the notification service with its configuration read from the
\* environment and any set of subscribers, and the connectors' credentials
InitNotifications ==
  /\ production \in BOOLEAN
  /\ use_gemini = FALSE
  /\ PipelineIdle
  /\ SearchIdle
  /\ subscribers \in SUBSET {"a@x.io", "b@x.io"}
  /\ subscribers_file = Lines(Sorted(subscribers))
  /\ loaded = subscribers
  /\ handlers = [h \in Handlers |-> NoCall]
  /\ CacheIdle
  /\ SchedulerIdle
  /\ credentials \in [reddit : BOOLEAN, news_api : BOOLEAN]
  /\ reddit_token = NoToken
  /\ fetched = NoFetch
  /\ rule_call = NoRuleCall
  /\ config \in [email : BOOLEAN, webhook : BOOLEAN]
  /\ notification = NoNotification

\* one daily job or test notification, statement by statement
NextNotifications ==
  \/ DailyNotificationJob
  \/ SendTestNotification
  \/ SendEmailNotificationToSubscribers
  \/ SendWebhookNotification

SpecNotifications == InitNotifications /\ [][NextNotifications]_vars

\* a classifier in any state, about to analyse one of the inputs by the rules
InitRules ==
  /\ production \in BOOLEAN
  /\ use_gemini \in BOOLEAN
  /\ PipelineIdle
  /\ SearchIdle
  /\ SubscribersIdle /\ CacheIdle /\ SchedulerIdle /\ ConnectorsIdle
  /\ rule_call \in { [NoRuleCall EXCEPT !.item = i] : i \in RuleInputs }
  /\ NotifyIdle

NextRules == CallAnalyzeWithRules

SpecRules == InitRules /\ [][NextRules]_vars

(***************************************************************************)
(* Properties.                                                             *)
(***************************************************************************)
\* run_full_pipeline has returned its result
Returned == pc = "done"

\* collect_news has returned to run_full_pipeline
Collected == pc \in {"analyze", "assemble", "done", "raised"}

\* the loop of analyze_and_categorize has ended
Classified == pc \in {"assemble", "done", "raised"}

\* the titles of the model lower-cased and trimmed, computed once
NormalizedTitles == [t \in { a.title : a \in Articles } |-> Strip(Lower(t))]

\* the normalized title of an item
NormalizedTitle(item) == NormalizedTitles[item.title]

\* position of a connector in the merge order
SourceRank(item) ==
  CASE item.source = "NewsAPI" -> 1
    [] item.source = "https://krebsonsecurity.com" -> 2
    [] item.source = "Reddit r/netsec" -> 3

\* C1: when the three connectors have returned their lists, the output of
\* collect_news holds every distinct normalized title of the merged list
\* (News API, then web scraper, then Reddit) exactly once, and the item kept
\* for a title is the first item of the merged list with that title.
C1_DedupKeepsFirst ==
  (Collected /\ failed = "none") =>
    /\ \A i, j \in DOMAIN all_news : i < j => SourceRank(all_news[i]) <= SourceRank(all_news[j])
    /\ \A i \in DOMAIN all_news :
         LET same == { j \in DOMAIN news_items :
                         NormalizedTitle(news_items[j]) = NormalizedTitle(all_news[i]) }
             first == CHOOSE k \in DOMAIN all_news :
                        /\ NormalizedTitle(all_news[k]) = NormalizedTitle(all_news[i])
                        /\ \A l \in 1..(k - 1) :
                             NormalizedTitle(all_news[l]) # NormalizedTitle(all_news[i])
         IN /\ Cardinality(same) = 1
            /\ \A j \in same : news_items[j] = all_news[first]
    /\ \A j \in DOMAIN news_items : \E i \in DOMAIN all_news : news_items[j] = all_news[i]

\* C1 witness: two connectors delivered the same title in different case and
\* collect_news kept one item for it
C1_Witness ==
  /\ Collected /\ failed = "none"
  /\ \E i, j \in DOMAIN all_news :
       /\ i < j
       /\ all_news[i].title # all_news[j].title
       /\ NormalizedTitle(all_news[i]) = NormalizedTitle(all_news[j])
       /\ all_news[i] \in { news_items[k] : k \in DOMAIN news_items }
  /\ Len(news_items) >= 2

\* the sum of the three counters of a severity_stats mapping
StatsSum(stats) == stats["High"] + stats["Medium"] + stats["Low"]

\* C2: in every result of run_full_pipeline the three severity counters add
\* up to total_items, whichever path each item's classification took.
C2_SeveritySum ==
  Returned => StatsSum(result.severity_stats) = result.total_items

\* the positions at which an item occurs in the buckets of a mapping
Occurrences(categorized, item) ==
  { <<c, k>> \in UNION { {c} \X DOMAIN categorized[c] : c \in DOMAIN categorized } :
      categorized[c][k] = item }

C4_EnumsAfterClassification ==
  Classified =>
    \A i \in DOMAIN analyzed_items :
      /\ analyzed_items[i].category \in
           {"Latest Attacks", "New Tools", "Threat Intelligence", "Vulnerabilities", "General"}
      /\ analyzed_items[i].severity \in {"High", "Medium", "Low"}

\* the error messages that carry a quota or rate-limit signature
QuotaMessages == { "429 Resource has been exhausted", "Quota exceeded for model" }

\* the last element of a non-empty list
Last(seq) == seq[Len(seq)]

C6_ConnectorFailureIsolated ==
  (Collected /\ failed # "none") =>
    /\ called = {"news_api", "web_scraper", "reddit_api"}
    /\ news_items = Take(DeduplicateNews(all_news), max_items)

\* C7: no exception leaves run_full_pipeline; when collection fails the
\* result is well formed and empty; every call returns the same six fields.
C7_PipelineNeverRaises ==
  /\ pc # "raised"
  /\ Returned =>
       /\ DOMAIN result = {"news_items", "categorized_news", "daily_digest",
                           "severity_stats", "total_items", "timestamp"}
       /\ failed # "none" =>
            /\ result.news_items = <<>>
            /\ result.total_items = 0
            /\ DOMAIN result.categorized_news =
                 {"Latest Attacks", "New Tools", "Threat Intelligence", "Vulnerabilities", "General"}
            /\ \A c \in DOMAIN result.categorized_news : result.categorized_news[c] = <<>>
            /\ result.severity_stats = [s \in {"High", "Medium", "Low"} |-> 0]

\* the analyses an analyze_news_item call can return for an item
PossibleAnalyses(item) ==
  {RulesFor(item)} \cup { ParsedResponse[r] : r \in GeminiResponses }

\* C8: an item whose analysis raises is kept in the output with summary,
\* category, severity and tags as they were, the batch goes on, every other
\* item is classified, and the output has the length and order of the input.
C8_ItemFailureIsolated ==
  /\ Len(paths) = Len(analyzed_items)
  /\ Len(analyzed_items) <= Len(news_items)
  /\ Classified => Len(analyzed_items) = Len(news_items)
  /\ \A i \in DOMAIN analyzed_items :
       IF paths[i].raised
       THEN analyzed_items[i] = news_items[i]
       ELSE \E a \in PossibleAnalyses(news_items[i]) :
              analyzed_items[i] = UpdateItem(news_items[i], a)

\* C8 witness: a batch in which the analysis of an item raised, a later item
\* was classified, and the analysis of an item carrying connector tags raised
C8_Witness ==
  /\ Classified
  /\ \E i, j \in DOMAIN analyzed_items :
       /\ i < j
       /\ paths[i].raised
       /\ ~paths[j].raised /\ analyzed_items[j] # news_items[j]
  /\ \E k \in DOMAIN analyzed_items : paths[k].raised /\ analyzed_items[k].tags # <<>>

\* the positions of the items a query matches: the lower-cased query is a
\* substring of the lower-cased title, content or of some lower-cased tag
MatchingPositions(query, items) ==
  { i \in DOMAIN items :
      \/ Contains(Lower(items[i].title), Lower(query))
      \/ Contains(Lower(items[i].content), Lower(query))
      \/ \E t \in DOMAIN items[i].tags : Contains(Lower(items[i].tags[t]), Lower(query)) }

\* C9: search_news returns exactly the matching items, in input order, none
\* omitted and none repeated.
C9_SearchExact ==
  searched =>
    LET matching == MatchingPositions(search_query, search_items)
    IN /\ Len(search_result) = Cardinality(matching)
       /\ \A k \in DOMAIN search_result :
            \E i \in matching :
              /\ Cardinality({ j \in matching : j <= i }) = k
              /\ search_result[k] = search_items[i]

\* C9 witness: a search that matched one item by a tag only, another by its
\* title in a different case, and left an item out
C9_Witness ==
  /\ searched
  /\ Len(search_result) >= 1 /\ Len(search_result) < Len(search_items)
  /\ \E k \in DOMAIN search_result :
       /\ ~Contains(Lower(search_result[k].title), Lower(search_query))
       /\ ~Contains(Lower(search_result[k].content), Lower(search_query))
  /\ search_query # Lower(search_query)

\* C10: collect_news returns at most max_items items, the first
\* min(max_items, n) items of the deduplicated merged list of n items.
C10_CappedPrefix ==
  Collected =>
    /\ Len(news_items) <= max_items
    /\ failed = "none" =>
         LET deduplicated == DeduplicateNews(all_news)
         IN /\ Len(news_items) = Min(max_items, Len(deduplicated))
            /\ \A i \in DOMAIN news_items : news_items[i] = deduplicated[i]

\* C10 witness: collect_news returned exactly max_items items
C10_Witness ==
  /\ Collected /\ failed = "none"
  /\ max_items > 0
  /\ Len(news_items) = max_items

\* the fields of an item that classification never writes
Identity(item) == <<item.title, item.content, item.source>>

\* C11: in every result of run_full_pipeline, news_items holds the items
\* collect_news returned, one for one and in the same order (which is the
\* connector invocation order), and total_items is the length of news_items.
C11_ResultKeepsCollected ==
  Returned =>
    /\ Len(result.news_items) = Len(news_items)
    /\ \A i \in DOMAIN news_items : Identity(result.news_items[i]) = Identity(news_items[i])
    /\ \A i, j \in DOMAIN result.news_items :
         i < j => SourceRank(result.news_items[i]) <= SourceRank(result.news_items[j])
    /\ result.total_items = Len(result.news_items)

\* C11 witness: a result of three items from the three connectors, one whose
\* analysis raised and one that classification changed
C11_Witness ==
  /\ Returned
  /\ Len(result.news_items) = 3
  /\ \E i, j \in DOMAIN result.news_items :
       /\ paths[i].raised
       /\ result.news_items[j] # news_items[j]
       /\ result.news_items[i].title # result.news_items[j].title

\* the addresses a restart of the service would load from subscribers.txt
Persisted ==
  { Lower(Strip(subscribers_file[i])) :
      i \in { j \in DOMAIN subscribers_file : Strip(subscribers_file[j]) # "" } }

\* the orders in which the calls of the handlers hs can be executed one at a time
Orders(hs) ==
  { o \in [1..Cardinality(hs) -> hs] : \A i, j \in DOMAIN o : o[i] = o[j] => i = j }

RECURSIVE SerialOutcome(_, _, _)
\* executing the calls order[i..] one at a time, from the set given, returns
\* what the handlers got and ends with self.subscribers
SerialOutcome(order, i, set) ==
  IF i > Len(order) THEN set = subscribers
  ELSE LET c == handlers[order[i]]
       IN /\ c.pc = "done"
          /\ c.returned = (IF c.op = "add" THEN c.email \notin set ELSE c.email \in set)
          /\ SerialOutcome(order, i + 1,
                           IF c.op = "add" THEN set \cup {c.email} ELSE set \ {c.email})

\* C12: when the concurrent add_subscriber / remove_subscriber calls have all
\* finished, their return values and the subscriber set are those of some
\* execution of the calls one at a time, and subscribers.txt holds the set.
C12_Serializable ==
  (\A h \in Handlers : ~InFlight(h)) =>
    /\ \E o \in Orders({ h \in Handlers : handlers[h].pc # "idle" }) :
         SerialOutcome(o, 1, loaded)
    /\ Persisted = subscribers

\* a text is trimmed and lower-cased
IsNormal(e) == Strip(e) = e /\ Lower(e) = e

\* C17: in calls made one after the other from a loaded list, every member of
\* the subscriber set is trimmed and lower-cased; add_subscriber returns True
\* iff the normalized address was absent when it was called and the set is
\* then the old one with the address; remove_subscriber returns True iff it
\* was present and the set is then the old one without it.
C17_SubscriberSet ==
  [][ /\ \A e \in subscribers \cup subscribers' : IsNormal(e)
      /\ \A h \in Handlers :
           (InFlight(h) /\ handlers'[h].pc = "done") =>
             LET c == handlers'[h]
                 e == Lower(Strip(c.arg))
             IN IF c.op = "add"
                THEN /\ c.returned = (e \notin c.before)
                     /\ subscribers' = c.before \cup {e}
                ELSE /\ c.returned = (e \in c.before)
                     /\ subscribers' = c.before \ {e} ]_vars

\* C17 witness: the list was loaded from a file with an untrimmed upper-case
\* line; an add of an untrimmed upper-case address returned True and a later
\* add of the same address in lower case returned False
C17_Witness ==
  /\ loaded = {"b@x.io"}
  /\ \E h, g \in Handlers :
       /\ handlers[h].pc = "done" /\ handlers[h].op = "add" /\ handlers[h].returned
       /\ ~IsNormal(handlers[h].arg)
       /\ handlers[h].before = loaded
       /\ handlers[g].pc = "done" /\ handlers[g].op = "add" /\ ~handlers[g].returned
       /\ IsNormal(handlers[g].arg)
       /\ handlers[g].before = {"a@x.io", "b@x.io"}
  /\ subscribers = {"a@x.io", "b@x.io"}

\* C13: whatever a handler of search, digest, api_news or export has read
\* from the cache while index and api_refresh replace it, all of it comes
\* from the result of one single pipeline run.
C13_ReadersSeeOneRun ==
  (reader.pc = "done" /\ reader.response # <<>>) =>
    \E run \in produced :
      \A k \in DOMAIN reader.response :
        reader.response[k] = run[FieldsRead[reader.route][k]]

\* C14: whatever start_daily_scheduler and stop_daily_scheduler calls were
\* made, the only run_scheduler loop that passes its `while self.is_running`
\* test is the one started last: no earlier loop keeps running beside it.
C14_OneSchedulerLoop ==
  [][ \A i \in DOMAIN loops :
        (loops[i] = "while" /\ loops'[i] = "run_pending") => i = Len(loops) ]_vars

\* an item of the fixed placeholder lists
IsPlaceholder(item) == \E t \in DOMAIN item.tags : item.tags[t] = "mock"

\* C15: a connector call returns placeholder items only when no credentials
\* are configured for the connector; with credentials configured a failure
\* gives the real, possibly empty, list.
C15_PlaceholdersOnlyWithoutCredentials ==
  \A k \in DOMAIN fetched.items :
    IsPlaceholder(fetched.items[k]) =>
      ~(IF fetched.connector = "reddit" THEN credentials.reddit ELSE credentials.news_api)

\* C16: with FLASK_ENV = production an analyze_news_item call does not invoke
\* the generative model, whether or not the credential is configured, what
\* it returns is the rule-based analysis of the item, and it leaves
\* use_gemini as it was.
C16_ProductionForcesRules ==
  [][ (production /\ Len(paths') > Len(paths)) =>
        /\ ~Last(paths').primary
        /\ use_gemini' = use_gemini
        /\ ~Last(paths').raised =>
             Last(analyzed_items') =
               UpdateItem(news_items[Len(paths')], RulesFor(news_items[Len(paths')])) ]_vars

\* C16 witness: in production, with the credential configured, an item has
\* been classified by the rules
C16_Witness ==
  /\ production /\ use_gemini
  /\ \E i \in DOMAIN paths :
       /\ ~paths[i].primary /\ ~paths[i].raised
       /\ analyzed_items[i].category # "General"
       /\ analyzed_items[i].tags # news_items[i].tags

\* C18: every item in the news_items of a pipeline result has at most 5 tags,
\* whichever path its classification took.
C18_AtMostFiveTags ==
  Returned => \A i \in DOMAIN result.news_items : Len(result.news_items[i].tags) <= MaxTags

\* the categories in the order the tie-break follows
CategoryOrder ==
  <<"Latest Attacks", "Vulnerabilities", "New Tools", "Threat Intelligence", "General">>

\* the number of keywords of the category of this name that occur in the text
KeywordScore(name, text) ==
  LET c == CHOOSE i \in DOMAIN Categories : Categories[i].name = name
  IN Cardinality({ k \in DOMAIN Categories[c].keywords :
                     Contains(text, Categories[c].keywords[k]) })

\* the text _analyze_with_rules classifies: title, a space, content, lower-cased
ClassifiedText == Lower(rule_call.item.title \o " " \o rule_call.item.content)

\* C20: the rule-based category is General when no category keyword occurs
\* in the text; otherwise it is the category with the largest keyword score,
\* and among several with that score the earliest in the order Latest
\* Attacks, Vulnerabilities, New Tools, Threat Intelligence, General.
C20_CategoryByScore ==
  rule_call.called =>
    IF \A k \in DOMAIN CategoryOrder : KeywordScore(CategoryOrder[k], ClassifiedText) = 0
    THEN rule_call.analysis.category = "General"
    ELSE \E k \in DOMAIN CategoryOrder :
           /\ rule_call.analysis.category = CategoryOrder[k]
           /\ \A j \in DOMAIN CategoryOrder :
                /\ KeywordScore(CategoryOrder[j], ClassifiedText)
                     <= KeywordScore(CategoryOrder[k], ClassifiedText)
                /\ j < k => KeywordScore(CategoryOrder[j], ClassifiedText)
                              < KeywordScore(CategoryOrder[k], ClassifiedText)

\* C20 witness: three categories tie for a maximum score above 0, General
\* among them, and the call returned Latest Attacks, the earliest of them
C20_Witness ==
  /\ rule_call.called
  /\ LET top == KeywordScore(rule_call.analysis.category, ClassifiedText)
     IN /\ top > 0
        /\ { CategoryOrder[k] : k \in { j \in DOMAIN CategoryOrder :
                                         KeywordScore(CategoryOrder[j], ClassifiedText) = top } }
             = {"Latest Attacks", "New Tools", "General"}
  /\ rule_call.analysis.category = "Latest Attacks"

\* the severity tiers in the order the tie-break follows
SeverityOrder == <<"High", "Medium", "Low">>

\* the number of keywords of the tier of this name that occur in the text
TierScore(name, text) ==
  LET t == CHOOSE i \in DOMAIN SeverityKeywords : SeverityKeywords[i].name = name
  IN Cardinality({ k \in DOMAIN SeverityKeywords[t].keywords :
                     Contains(text, SeverityKeywords[t].keywords[k]) })

\* C21: the rule-based severity is Medium when no tier keyword occurs in the
\* text; otherwise it is the tier with the largest keyword score, and among
\* several with that score the earliest in the order High, Medium, Low.
C21_SeverityByScore ==
  rule_call.called =>
    IF \A k \in DOMAIN SeverityOrder : TierScore(SeverityOrder[k], ClassifiedText) = 0
    THEN rule_call.analysis.severity = "Medium"
    ELSE \E k \in DOMAIN SeverityOrder :
           /\ rule_call.analysis.severity = SeverityOrder[k]
           /\ \A j \in DOMAIN SeverityOrder :
                /\ TierScore(SeverityOrder[j], ClassifiedText)
                     <= TierScore(SeverityOrder[k], ClassifiedText)
                /\ j < k => TierScore(SeverityOrder[j], ClassifiedText)
                              < TierScore(SeverityOrder[k], ClassifiedText)

\* C21 witness: Medium and Low tie for the largest score, above that of High,
\* and the call returned Medium
C21_Witness ==
  /\ rule_call.called
  /\ TierScore("Medium", ClassifiedText) > TierScore("High", ClassifiedText)
  /\ TierScore("Medium", ClassifiedText) = TierScore("Low", ClassifiedText)
  /\ rule_call.analysis.severity = "Medium"

\* the positions of the tag vocabulary whose term occurs in the text
Occurring(text) == { i \in DOMAIN AllTags : Contains(text, AllTags[i]) }

\* C22: the tags returned by the rule-based analysis are the first 5 terms
\* of the vocabulary, in vocabulary order, that occur in the lower-cased
\* title+content, and all of them when fewer than 5 occur: the k-th tag is
\* the occurring term with exactly k - 1 occurring terms before it.
C22_TagsAreFirstFiveOccurring ==
  rule_call.called =>
    LET tags == rule_call.analysis.tags
        present == Occurring(ClassifiedText)
    IN /\ Len(tags) = Min(5, Cardinality(present))
       /\ \A k \in DOMAIN tags :
            \E p \in present :
              /\ tags[k] = AllTags[p]
              /\ Cardinality({ q \in present : q < p }) = k - 1

\* C22 witness: more than 5 terms of the vocabulary occur and 5 are returned
C22_Witness ==
  /\ rule_call.called
  /\ Cardinality(Occurring(ClassifiedText)) > 5
  /\ Len(rule_call.analysis.tags) = 5

\* item.content of the call, split on ". "
Sentences == Split(rule_call.item.content, ". ")

\* how many of the 7 keywords occur in the lower-cased sentence
SentenceScore(sentence) ==
  Cardinality({ k \in DOMAIN SummaryKeywords : Contains(Lower(sentence), SummaryKeywords[k]) })

\* the earliest of the sentences after the first that hold the most keywords
BestLater(sentences) ==
  CHOOSE i \in 2..Len(sentences) :
    \A j \in 2..Len(sentences) :
      /\ SentenceScore(sentences[j]) <= SentenceScore(sentences[i])
      /\ j < i => SentenceScore(sentences[j]) < SentenceScore(sentences[i])

\* content that does not split: its first 200 characters and an ellipsis
\* when it is longer than 200 characters, the content itself otherwise
Unsplit(content) ==
  IF Len(content) > 200 THEN SubSeq(content, 1, 200) \o "..." ELSE content

\* C23 as stated: for content of at least 2 sentences the summary is the
\* first sentence plus the earliest later sentence holding the most keywords,
\* and the first sentence alone when no later sentence holds a keyword;
\* content that does not split is cut to 200 characters plus an ellipsis.
C23_SummaryAsStated ==
  rule_call.called =>
    LET s == Sentences
        summary == rule_call.analysis.summary
    IN IF Len(s) >= 2
       THEN LET b == BestLater(s)
            IN IF SentenceScore(s[b]) = 0
               THEN summary = s[1] \o "."
               ELSE summary = s[1] \o ". " \o s[b] \o "."
       ELSE summary = Unsplit(rule_call.item.content)

\* C23 amended: as stated, except that a later sentence whose text equals the
\* first sentence is not added, so that the summary is then the first
\* sentence alone.
C23_SummaryUnlessRepeated ==
  rule_call.called =>
    LET s == Sentences
        summary == rule_call.analysis.summary
    IN IF Len(s) >= 2
       THEN LET b == BestLater(s)
            IN IF SentenceScore(s[b]) = 0 \/ s[b] = s[1]
               THEN summary = s[1] \o "."
               ELSE summary = s[1] \o ". " \o s[b] \o "."
       ELSE summary = Unsplit(rule_call.item.content)

\* C23 witness: two later sentences hold the same, largest number of
\* keywords and the summary carries the earlier of the two
C23_Witness ==
  /\ rule_call.called
  /\ Len(Sentences) >= 3
  /\ \E i, j \in 2..Len(Sentences) :
       /\ i < j
       /\ i = BestLater(Sentences)
       /\ SentenceScore(Sentences[i]) > 0
       /\ SentenceScore(Sentences[j]) = SentenceScore(Sentences[i])
       /\ Sentences[i] # Sentences[j]
       /\ rule_call.analysis.summary = Sentences[1] \o ". " \o Sentences[i] \o "."

\* a token exchange is due: no token is cached, or the time has reached the
\* cached token's expiry less 60 seconds, which is what token_expires holds
ExchangeDue ==
  \/ reddit_token.access_token = 0
  \/ clock.now >= reddit_token.token_expires

\* C24: with credentials configured, a Reddit fetch performs a token exchange
\* exactly when one is due; a fetch made while the cached token is valid
\* leaves the token as it is and sends it; a successful exchange caches a new
\* token, sends it, and sets its expiry to expires_in - 60 seconds from now,
\* so that the fetches before that time find it valid.
C24_TokenExchangedWhenDue ==
  [][ (credentials.reddit /\ fetched' # fetched /\ fetched'.connector = "reddit")
        => /\ (fetched'.exchange # "none") <=> ExchangeDue
           /\ ~ExchangeDue => /\ reddit_token' = reddit_token
                               /\ fetched'.token = reddit_token.access_token
           /\ fetched'.exchange = "ok"
                => /\ reddit_token'.access_token \notin {0, reddit_token.access_token}
                   /\ fetched'.token = reddit_token'.access_token
                   /\ \E expires_in \in ExpiresIn :
                        reddit_token'.token_expires = clock.now + expires_in - 60
                   /\ ~ExchangeDue' ]_vars

\* C24 witness: the first token had expired, a fetch at time 3601 exchanged
\* it for a second one, and a later fetch, made at time 7202 while the
\* second token was valid, sent that token without an exchange
C24_Witness ==
  /\ credentials.reddit
  /\ reddit_token = [access_token |-> 2, token_expires |-> 3601 + 86400 - 60]
  /\ clock.now = 3601 + 3601
  /\ fetched.connector = "reddit"
  /\ fetched.all_posts # <<>>
  /\ fetched.exchange = "none"
  /\ fetched.token = 2

\* the stage named `earlier` has happened before position i of the stages
Before(stages, earlier, i) == \E j \in 1..(i - 1) : stages[j] = earlier

\* C25: in a daily notification run the stages come in the order collection,
\* classification, report building, delivery, and every item handed to the
\* report builder or posted to the webhook is a collected item as updated
\* with an analysis of the classifier.
C25_ClassifiedBeforeDelivery ==
  (notification.origin = "daily" /\ notification.pc = "done")
    => LET stages == notification.stages
       IN /\ \A i \in DOMAIN stages :
               /\ stages[i] = "classify" => Before(stages, "collect", i)
               /\ stages[i] = "report" => Before(stages, "classify", i)
               /\ stages[i] = "deliver" => Before(stages, "classify", i)
          /\ \A i \in DOMAIN notification.reported :
               \E analysis \in PossibleAnalyses(notification.news_items[i]) :
                 /\ analysis.summary # ""
                 /\ notification.reported[i] = UpdateItem(notification.news_items[i], analysis)

\* the error messages without quota or rate-limit marker
OtherMessages == { "Deadline Exceeded" }

\* C26: an analyze call whose generative call fails with a message carrying
\* neither "quota" nor "429" leaves the primary-enabled flag as it was, set,
\* and ends with the outcome of the rule-based analysis of the item; and as
\* long as the flag is set outside production, an analyze call invokes the
\* generative model, so the call after such a failure tries it again.
C26_OtherFailureKeepsPrimary ==
  [][ /\ (Len(paths') > Len(paths) /\ Last(paths').primary
             /\ Last(paths').error \in OtherMessages) =>
          /\ use_gemini' = use_gemini
          /\ use_gemini' = TRUE
          /\ Last(analyzed_items') =
               (IF Last(paths').raised THEN news_items[Len(paths')]
                ELSE UpdateItem(news_items[Len(paths')], RulesFor(news_items[Len(paths')])))
      /\ (Len(paths') > Len(paths) /\ use_gemini /\ ~production) => Last(paths').primary ]_vars

\* C26 witness: the generative call of one item failed without quota marker,
\* the item got its rule-based analysis, and the call for the next item
\* invoked the generative model again
C26_Witness ==
  /\ use_gemini /\ ~production
  /\ \E i \in DOMAIN paths :
       /\ i + 1 \in DOMAIN paths
       /\ paths[i].primary /\ paths[i].error \in OtherMessages /\ ~paths[i].raised
       /\ analyzed_items[i] = UpdateItem(news_items[i], RulesFor(news_items[i]))
       /\ paths[i + 1].primary

\* C27: the filtered posts of a Reddit fetch are the relevant posts of the
\* merged list, one per normalized title: the first relevant post of every
\* title is in the output, every post of the output is relevant, and no two
\* posts of the output share a normalized title.
C27_RelevantThenDeduplicated ==
  (fetched.connector = "reddit" /\ fetched.token # 0) =>
    LET all_posts == fetched.all_posts
        filtered == fetched.filtered
    IN /\ \A i \in DOMAIN all_posts :
            (/\ Related[all_posts[i]]
             /\ \A j \in 1..(i - 1) :
                  Related[all_posts[j]] => PostTitleKey[all_posts[j]] # PostTitleKey[all_posts[i]])
              => \E k \in DOMAIN filtered : filtered[k] = all_posts[i]
       /\ \A k \in DOMAIN filtered : Related[filtered[k]]
       /\ \A k, l \in DOMAIN filtered :
            PostTitleKey[filtered[k]] = PostTitleKey[filtered[l]] => k = l

\* the seconds since the cached snapshot was stored
CacheAge == clock.now - news_cache.timestamp

\* C28: an index request that finds a cached snapshot older than
\* cache_duration, whatever the age and ages of a day or more included, goes
\* on to run the pipeline, and one that finds a snapshot of at most
\* cache_duration seconds serves it without running the pipeline.
C28_IndexNeverServesOldCache ==
  [][(/\ writer.pc = "idle"
      /\ writer' # writer
      /\ writer'.route = "index"
      /\ news_cache.has_data
      /\ news_cache.timestamp # NoTimestamp)
       => IF CacheAge > CacheDuration THEN writer'.pc = "run" ELSE writer'.pc = "idle"]_vars

\* the rank of a severity, High above Medium above Low
SeverityRank(severity) ==
  CASE severity = "High" -> 3
    [] severity = "Medium" -> 2
    [] severity = "Low" -> 1
    [] OTHER -> 0

\* C29: the top stories of a posted webhook notification are at most 5 of the
\* notification's items, no item left out ranks strictly above an item
\* included, and the included items are listed from High down to Low.
C29_TopStoriesBySeverity ==
  notification.posted =>
    LET items == notification.news_items
        top == notification.top_items
    IN /\ Len(top) <= 5
       /\ \A k \in DOMAIN top : \E i \in DOMAIN items : items[i] = top[k]
       /\ \A i \in DOMAIN items :
            (\A k \in DOMAIN top : top[k] # items[i])
              => \A k \in DOMAIN top : SeverityRank(items[i].severity) <= SeverityRank(top[k].severity)
       /\ \A k, l \in DOMAIN top :
            k < l => SeverityRank(top[k].severity) >= SeverityRank(top[l].severity)

\* the sends of the notification that carry this address as a recipient
SendsTo(address) ==
  { k \in DOMAIN notification.emails :
      \E r \in DOMAIN notification.emails[k].recipients :
        notification.emails[k].recipients[r] = address }

\* C30: every send of an e-mail notification goes to one recipient, the
\* subscriber of its iteration, and its message names no other subscriber;
\* when no send failed, every subscriber is a recipient of exactly one send.
C30_OneRecipientPerSend ==
  LET emails == notification.emails
  IN /\ \A k \in DOMAIN emails :
          /\ emails[k].recipients = <<emails[k].subscriber>>
          /\ \A h \in DOMAIN emails[k].to_headers :
               emails[k].to_headers[h] = emails[k].subscriber
     /\ Len(emails) = Cardinality(subscribers) /\ emails # <<>>
          => \A address \in subscribers : Cardinality(SendsTo(address)) = 1

====
